---- MODULE Spec2Model ----
(***************************************************************************)
(* etable.IdxTable: an indexed view onto an etable.Table.  The view keeps  *)
(* a slice of physical row numbers (Idxs) and sorts, filters, aggregates   *)
(* and materialises through it (src/etable/idxtable.go).                   *)
(*                                                                         *)
(* Go values are modelled as follows.                                      *)
(*   float64   a record [nan, v]: NaN, or the (small, integral) number v   *)
(*   string    a sequence of byte values, compared bytewise as Go does     *)
(*   []int     a slice [ptr, len] into a backing array of the heap `mem`;  *)
(*             cap is the length of the backing array, ptr 0 is nil        *)
(*   Tensor    a record [kind, csz, Values, Nulls] held in the store       *)
(*             `tens`; Values and Nulls are flat, flat offset k is         *)
(*             element k+1                                                 *)
(*   rows, columns, offsets and logical positions are 0-based as in Go     *)
(***************************************************************************)
EXTENDS Integers, Sequences, FiniteSets, TLC

\* Bounds of the model.
MaxRows == 4  \* most rows of a table
MaxLen == 3   \* most entries of a view; AddIndex is taken only while Len() < MaxLen
HeapRows == 2 \* most rows of a table under the two-view specification
HeapLen == 2  \* AddIndex bound under the two-view specification

----------------------------------------------------------------------------
\* float64
F(x) == [nan |-> FALSE, v |-> x]
NaN == [nan |-> TRUE, v |-> 0]

\* Go's < on float64: false when either side is NaN
FloatLess(a, b) == ~a.nan /\ ~b.nan /\ a.v < b.v

\* Go's > on float64
FloatGreater(a, b) == FloatLess(b, a)

\* math.IsNaN
IsNaN(a) == a.nan

\* float64 + and *: NaN propagates
FloatAdd(a, b) == IF a.nan \/ b.nan THEN NaN ELSE F(a.v + b.v)

\* Go's < on string: bytewise lexicographic, a proper prefix is smaller
RECURSIVE StringLess(_, _)
StringLess(a, b) ==
  IF b = <<>> THEN FALSE
  ELSE IF a = <<>> THEN TRUE
  ELSE IF Head(a) # Head(b) THEN Head(a) < Head(b)
  ELSE StringLess(Tail(a), Tail(b))

\* Go's > on string
StringGreater(a, b) == StringLess(b, a)

----------------------------------------------------------------------------
\* etensor.Tensor as the view uses it (the etensor package is not among the
\* sources; these follow the column storage contract of the specification).

\* Tensor.DataType
DataType(cl) == cl.kind

\* Tensor.RowCellSize: the cell size (second result)
RowCellSize(cl) == cl.csz

\* Tensor.FloatVal1D on a Float64 tensor
FloatVal1D(cl, off) == cl.Values[off + 1]

\* Tensor.StringVal1D on a String tensor
StringVal1D(cl, off) == cl.Values[off + 1]

\* Tensor.IsNull1D
IsNull1D(cl, off) == cl.Nulls[off + 1]

\* the zero value of an element
ZeroVal(kind) == IF kind = "STRING" THEN <<>> ELSE F(0)

\* a new tensor of the given kind and cell size with rows rows, zero-filled
NewTensor(kind, csz, rows) ==
  [kind |-> kind, csz |-> csz,
   Values |-> [k \in 1..(rows * csz) |-> ZeroVal(kind)],
   Nulls |-> [k \in 1..(rows * csz) |-> FALSE]]

\* tsr.CopyCellsFrom(frm, to, start, n): n contiguous elements of frm from
\* flat offset start are copied to tsr at flat offset to
CopyCellsFrom(tsr, frm, to, start, n) ==
  [tsr EXCEPT
     !.Values = [k \in DOMAIN tsr.Values |->
                   IF k > to /\ k <= to + n
                   THEN frm.Values[start + (k - to)] ELSE tsr.Values[k]],
     !.Nulls = [k \in DOMAIN tsr.Nulls |->
                   IF k > to /\ k <= to + n
                   THEN frm.Nulls[start + (k - to)] ELSE tsr.Nulls[k]]]

\* a store slot that holds no tensor
NoTensor == [kind |-> "none", csz |-> 0, Values |-> <<>>, Nulls |-> <<>>]

----------------------------------------------------------------------------
\* The tables the views are built over.  Every table has the schema
\*   column 0  "A"  FLOAT64, cell size 1 (holds a NaN and a null)
\*   column 1  "B"  FLOAT64, cell size 1 (no NaN, with ties)
\*   column 2  "S"  STRING,  cell size 1 (with ties)
\*   column 3  "M"  FLOAT64, cell size 2
\* and its rows are a window of the rows of Master, taken cyclically.

\* Table.Schema: kind and cell size of every column
Schema == << [kind |-> "FLOAT64", csz |-> 1], [kind |-> "FLOAT64", csz |-> 1],
             [kind |-> "STRING", csz |-> 1], [kind |-> "FLOAT64", csz |-> 2] >>

NumCols == Len(Schema)

\* the rows tables are made of: the cells of the four columns and their null bits
Master ==
  << [c |-> << <<F(1)>>, <<F(2)>>, << <<98>> >>,     <<F(1), F(2)>> >>,
      n |-> << <<FALSE>>, <<FALSE>>, <<FALSE>>, <<FALSE, FALSE>> >>],
     [c |-> << <<NaN>>,  <<F(1)>>, << <<97>> >>,     <<NaN, F(3)>> >>,
      n |-> << <<FALSE>>, <<FALSE>>, <<FALSE>>, <<FALSE, FALSE>> >>],
     [c |-> << <<F(3)>>, <<F(1)>>, << <<97, 98>> >>, <<F(2), F(1)>> >>,
      n |-> << <<FALSE>>, <<FALSE>>, <<FALSE>>, <<FALSE, TRUE>> >>],
     [c |-> << <<F(7)>>, <<F(2)>>, << <<98>> >>,     <<F(4), F(5)>> >>,
      n |-> << <<TRUE>>,  <<FALSE>>, <<TRUE>>,  <<TRUE, FALSE>> >>] >>

\* the master row at place r (0-based) of the window starting at master row k
MasterRow(k, r) == Master[((k - 1 + r) % Len(Master)) + 1]

\* column ci of the table with rows rows whose first row is master row k
MakeTensor(k, rows, ci) ==
  LET csz == Schema[ci + 1].csz IN
  [kind |-> Schema[ci + 1].kind, csz |-> csz,
   Values |-> [e \in 1..(rows * csz) |->
                 MasterRow(k, (e - 1) \div csz).c[ci + 1][((e - 1) % csz) + 1]],
   Nulls |-> [e \in 1..(rows * csz) |->
                 MasterRow(k, (e - 1) \div csz).n[ci + 1][((e - 1) % csz) + 1]]]

\* ids of the tensor store: the table's columns, then those of a new table
TableIds == 1..NumCols
NewIds == (NumCols + 1)..(2 * NumCols)
TensorIds == TableIds \cup NewIds

\* the store holding the columns of the table (k, rows) and nothing else
MakeStore(k, rows) ==
  [id \in TensorIds |-> IF id \in TableIds THEN MakeTensor(k, rows, id - 1) ELSE NoTensor]

\* etable.Table: its row count and its columns (ids into the store)
MakeTable(rows) == [Rows |-> rows, Cols |-> [ci \in 1..NumCols |-> ci]]

\* the columns of table t in store st, as a sequence of tensors
ColsOf(st, t) == [ci \in 1..Len(t.Cols) |-> st[t.Cols[ci]]]

----------------------------------------------------------------------------
\* LessFunc values.  A comparator is a record [f, col, cols, asc]:
\*   "nil"      no comparator stored
\*   "never"    a caller's func returning false for every pair
\*   "rowLess"  a caller's func comparing the row numbers themselves, i < j
\*   "col"      the closure SortCol builds for column col
\*   "cols"     the closure SortCols builds for the key columns cols
NilLess == [f |-> "nil", col |-> 0, cols |-> <<>>, asc |-> TRUE]
NeverLess == [f |-> "never", col |-> 0, cols |-> <<>>, asc |-> TRUE]
RowLess == [f |-> "rowLess", col |-> 0, cols |-> <<>>, asc |-> TRUE]
ColLess(colIdx, ascending) == [f |-> "col", col |-> colIdx, cols |-> <<>>, asc |-> ascending]
ColsLess(colIdxs, ascending) == [f |-> "cols", col |-> 0, cols |-> colIdxs, asc |-> ascending]

\* the closures of SortCol with < and > exchanged
SortColLessFlipped(cl, ascending, i, j) ==
  IF DataType(cl) = "STRING"
  THEN IF ascending
       THEN StringGreater(StringVal1D(cl, i), StringVal1D(cl, j))
       ELSE StringLess(StringVal1D(cl, i), StringVal1D(cl, j))
  ELSE IF ascending
       THEN FloatGreater(FloatVal1D(cl, i), FloatVal1D(cl, j))
       ELSE FloatLess(FloatVal1D(cl, i), FloatVal1D(cl, j))

\* the closures of SortCol: rows i, j of column cl
SortColLess(cl, ascending, i, j) ==
  IF DataType(cl) = "STRING"
  THEN IF ascending
       THEN StringLess(StringVal1D(cl, i), StringVal1D(cl, j))
       ELSE StringGreater(StringVal1D(cl, i), StringVal1D(cl, j))
  ELSE IF ascending
       THEN FloatLess(FloatVal1D(cl, i), FloatVal1D(cl, j))
       ELSE FloatGreater(FloatVal1D(cl, i), FloatVal1D(cl, j))

\* the closure of SortCols: the loop over the key columns, from key k on
RECURSIVE SortColsLess(_, _, _, _, _, _)
SortColsLess(cols, colIdxs, k, ascending, i, j) ==
  IF k > Len(colIdxs) THEN FALSE
  ELSE
    LET cl == cols[colIdxs[k] + 1]
        next == SortColsLess(cols, colIdxs, k + 1, ascending, i, j)
    IN
    IF DataType(cl) = "STRING"
    THEN IF ascending
         THEN IF StringLess(StringVal1D(cl, i), StringVal1D(cl, j)) THEN TRUE
              ELSE IF StringGreater(StringVal1D(cl, i), StringVal1D(cl, j)) THEN FALSE
              ELSE next
         ELSE IF StringGreater(StringVal1D(cl, i), StringVal1D(cl, j)) THEN TRUE
              ELSE IF StringLess(StringVal1D(cl, i), StringVal1D(cl, j)) THEN FALSE
              ELSE next
    ELSE IF ascending
         THEN IF FloatLess(FloatVal1D(cl, i), FloatVal1D(cl, j)) THEN TRUE
              ELSE IF FloatLess(FloatVal1D(cl, i), FloatVal1D(cl, j)) THEN FALSE
              ELSE next
         ELSE IF FloatGreater(FloatVal1D(cl, i), FloatVal1D(cl, j)) THEN TRUE
              ELSE IF FloatLess(FloatVal1D(cl, i), FloatVal1D(cl, j)) THEN FALSE
              ELSE next

\* calling the LessFunc lf on table rows i and j (cols: the table's columns)
CallLess(lf, cols, i, j) ==
  CASE lf.f = "never" -> FALSE
    [] lf.f = "rowLess" -> i < j
    [] lf.f = "col" -> SortColLess(cols[lf.col + 1], lf.asc, i, j)
    [] lf.f = "cols" -> SortColsLess(cols, lf.cols, 1, lf.asc, i, j)

\* whether the LessFunc lf reads the table's columns at its row arguments
ReadsRows(lf) == lf.f = "col" \/ (lf.f = "cols" /\ lf.cols # <<>>)

----------------------------------------------------------------------------
\* The heap of []int backing arrays and the views.

Views == {"a", "b"}

\* one array per view, and one more for an allocation while the old is held
ArrIds == 1..(Cardinality(Views) + 1)

\* the nil slice
NilSlice == [ptr |-> 0, len |-> 0]

\* the elements of slice s in heap m
Elems(m, s) == IF s.ptr = 0 THEN <<>> ELSE SubSeq(m[s.ptr], 1, s.len)

\* cap(s)
Cap(m, s) == IF s.ptr = 0 THEN 0 ELSE Len(m[s.ptr])

\* IdxTable{}: the zero view
ZeroView == [live |-> TRUE, Table |-> "nil", Idxs |-> NilSlice, lessFunc |-> NilLess]

\* a view that does not exist (yet)
NoView == [live |-> FALSE, Table |-> "nil", Idxs |-> NilSlice, lessFunc |-> NilLess]

\* the arrays the views xs refer to
Referenced(xs) == {xs[v].Idxs.ptr : v \in DOMAIN xs} \ {0}

\* the array an allocation returns: one that no view refers to
FreshArr(xs) == CHOOSE a \in ArrIds \ Referenced(xs) :
                  \A b \in ArrIds \ Referenced(xs) : a <= b

\* garbage collection: an array no view refers to is gone
Collect(m, xs) == [a \in ArrIds |-> IF a \in Referenced(xs) THEN m[a] ELSE <<>>]

\* Len
IdxLen(x) == x.Idxs.len

\* whether every entry of idxs is a row of a table with rows rows
AllValid(idxs, rows) == \A k \in 1..Len(idxs) : idxs[k] >= 0 /\ idxs[k] < rows

----------------------------------------------------------------------------
\* The methods.  Each takes the heap m and the view x, and new, the array an
\* allocation would return; it returns the heap and the view afterwards.

\* Sequential numbering the rows from 1
SequentialFromOne(m, x, rows, new) ==
  IF x.Table = "nil"
  THEN [mem |-> m, ix |-> [x EXCEPT !.Idxs = NilSlice]]
  ELSE [mem |-> [m EXCEPT ![new] = [i \in 1..rows |-> i]],
        ix |-> [x EXCEPT !.Idxs = [ptr |-> new, len |-> rows]]]

\* Sequential
Sequential(m, x, rows, new) ==
  IF x.Table = "nil"
  THEN [mem |-> m, ix |-> [x EXCEPT !.Idxs = NilSlice]]
  ELSE [mem |-> [m EXCEPT ![new] = [i \in 1..rows |-> i - 1]],
        ix |-> [x EXCEPT !.Idxs = [ptr |-> new, len |-> rows]]]

\* SetTable; et is "t" or "nil"
SetTable(m, x, et, rows, new) == Sequential(m, [x EXCEPT !.Table = et], rows, new)

\* NewIdxTable
NewIdxTable(m, et, rows, new) == SetTable(m, ZeroView, et, rows, new)

\* append(s, idx): in place while len < cap, else into a new array of
\* doubled capacity (1 for an empty one)
AppendInt(m, s, idx, new) ==
  IF s.len < Cap(m, s)
  THEN [mem |-> [m EXCEPT ![s.ptr][s.len + 1] = idx],
        Idxs |-> [ptr |-> s.ptr, len |-> s.len + 1]]
  ELSE LET newcap == IF Cap(m, s) = 0 THEN 1 ELSE 2 * Cap(m, s) IN
       [mem |-> [m EXCEPT ![new] = [k \in 1..newcap |->
                                      IF k <= s.len THEN m[s.ptr][k]
                                      ELSE IF k = s.len + 1 THEN idx ELSE 0]],
        Idxs |-> [ptr |-> new, len |-> s.len + 1]]

\* AddIndex
AddIndex(m, x, idx, new) ==
  LET r == AppendInt(m, x.Idxs, idx, new) IN
  [mem |-> r.mem, ix |-> [x EXCEPT !.Idxs = r.Idxs]]

\* Swap
Swap(m, x, i, j) ==
  [mem |-> [m EXCEPT ![x.Idxs.ptr][i + 1] = m[x.Idxs.ptr][j + 1],
                     ![x.Idxs.ptr][j + 1] = m[x.Idxs.ptr][i + 1]],
   ix |-> x]

\* Less: the LessFunc on the rows at logical positions i and j
Less(m, x, cols, i, j) ==
  CallLess(x.lessFunc, cols, Elems(m, x.Idxs)[i + 1], Elems(m, x.Idxs)[j + 1])

\* the permutations of 1..n
Perms(n) == {p \in [1..n -> 1..n] : \A i, j \in 1..n : i # j => p[i] # p[j]}

\* the heap after the Swap calls that bring position p[k] to position k
Permuted(m, x, p) ==
  IF x.Idxs.len = 0 THEN m
  ELSE [m EXCEPT ![x.Idxs.ptr] = [k \in DOMAIN m[x.Idxs.ptr] |->
                                    IF k <= x.Idxs.len THEN m[x.Idxs.ptr][p[k]]
                                    ELSE m[x.Idxs.ptr][k]]]

\* whether lf is a strict weak order on the rows rs: irreflexive, transitive,
\* and with a transitive "neither is less"
StrictWeak(lf, cols, rs) ==
  /\ \A a \in rs : ~CallLess(lf, cols, a, a)
  /\ \A a, b, c \in rs :
       CallLess(lf, cols, a, b) /\ CallLess(lf, cols, b, c) => CallLess(lf, cols, a, c)
  /\ \A a, b, c \in rs :
       (~CallLess(lf, cols, a, b) /\ ~CallLess(lf, cols, b, a) /\
        ~CallLess(lf, cols, b, c) /\ ~CallLess(lf, cols, c, b))
       => (~CallLess(lf, cols, a, c) /\ ~CallLess(lf, cols, c, a))

\* sort.Sort(ix): the heaps it may leave.  It calls only Len, Less and Swap,
\* so Idxs is permuted in place.  For a strict weak order no element is Less
\* than one before it afterwards; which of the equal elements comes first is
\* not promised (sort.Sort is not stable).  For any other Less the order left
\* is unspecified.
SortSort(m, x, cols) ==
  LET n == x.Idxs.len
      all == {Permuted(m, x, p) : p \in Perms(n)}
      rs == {Elems(m, x.Idxs)[k] : k \in 1..n}
      sorted == {m2 \in all : \A i, j \in 0..(n - 1) : i < j => ~Less(m2, x, cols, j, i)}
  IN IF n < 2 THEN {m}
     ELSE IF StrictWeak(x.lessFunc, cols, rs) /\ sorted # {} THEN sorted
     ELSE all

\* Sort: the outcomes, each the heap and the view afterwards
Sort(m, x, cols, lessFunc) ==
  LET x1 == [x EXCEPT !.lessFunc = lessFunc] IN
  {[mem |-> m2, ix |-> x1] : m2 \in SortSort(m, x1, cols)}

\* SortCol
SortCol(m, x, cols, colIdx, ascending) == Sort(m, x, cols, ColLess(colIdx, ascending))

\* SortCols
SortCols(m, x, cols, colIdxs, ascending) == Sort(m, x, cols, ColsLess(colIdxs, ascending))

\* whether a sort of x by lf ends (it panics when a Less reads a row that is
\* not in the table, or a table that is nil)
SortEnds(m, x, rows, lf) ==
  \/ x.Idxs.len < 2
  \/ ~ReadsRows(lf)
  \/ (x.Table # "nil" /\ AllValid(Elems(m, x.Idxs), rows))

\* calling a FilterFunc: the funcs are given by the set of rows they keep
CallFilter(filterFunc, row) == row \in filterFunc

\* removal by moving the last element into the place of the one removed
DeleteAtSwap(arr, n, i) == [arr EXCEPT ![i + 1] = arr[n]]

\* append(s[:i], s[i+1:]...) on the array arr holding n elements
DeleteAt(arr, n, i) ==
  [k \in DOMAIN arr |-> IF k >= i + 1 /\ k <= n - 1 THEN arr[k + 1] ELSE arr[k]]

\* the loop of Filter from position i down: the array and the length left
RECURSIVE FilterLoop(_, _, _, _)
FilterLoop(arr, n, i, filterFunc) ==
  IF i < 0 THEN [arr |-> arr, len |-> n]
  ELSE IF ~CallFilter(filterFunc, arr[i + 1])
       THEN FilterLoop(DeleteAt(arr, n, i), n - 1, i - 1, filterFunc)
       ELSE FilterLoop(arr, n, i - 1, filterFunc)

\* the loop of a Filter that goes forward, and so skips the entry that
\* follows one it removes
RECURSIVE FilterLoopForward(_, _, _, _)
FilterLoopForward(arr, n, i, filterFunc) ==
  IF i >= n THEN [arr |-> arr, len |-> n]
  ELSE IF ~CallFilter(filterFunc, arr[i + 1])
       THEN FilterLoopForward(DeleteAt(arr, n, i), n - 1, i + 1, filterFunc)
       ELSE FilterLoopForward(arr, n, i + 1, filterFunc)

\* Filter going forward
FilterForward(m, x, filterFunc) ==
  IF x.Idxs.len = 0 THEN [mem |-> m, ix |-> x]
  ELSE LET r == FilterLoopForward(m[x.Idxs.ptr], x.Idxs.len, 0, filterFunc) IN
       [mem |-> [m EXCEPT ![x.Idxs.ptr] = r.arr],
        ix |-> [x EXCEPT !.Idxs = [ptr |-> x.Idxs.ptr, len |-> r.len]]]

\* Filter
Filter(m, x, filterFunc) ==
  IF x.Idxs.len = 0 THEN [mem |-> m, ix |-> x]
  ELSE LET r == FilterLoop(m[x.Idxs.ptr], x.Idxs.len, x.Idxs.len - 1, filterFunc) IN
       [mem |-> [m EXCEPT ![x.Idxs.ptr] = r.arr],
        ix |-> [x EXCEPT !.Idxs = [ptr |-> x.Idxs.ptr, len |-> r.len]]]

\* CopyFrom taking the other view's slice instead of a copy of it
CopyFromAlias(m, x, oix, new) ==
  [mem |-> m, ix |-> [x EXCEPT !.Table = oix.Table, !.Idxs = oix.Idxs]]

\* CopyFrom
CopyFrom(m, x, oix, new) ==
  [mem |-> [m EXCEPT ![new] = Elems(m, oix.Idxs)],
   ix |-> [x EXCEPT !.Table = oix.Table,
                    !.Idxs = [ptr |-> new, len |-> oix.Idxs.len]]]

\* Clone
Clone(m, oix, new) == CopyFrom(m, ZeroView, oix, new)

----------------------------------------------------------------------------
\* Materialisation and aggregation.

\* Table.Schema of table t in store st
SchemaOf(st, t) ==
  [ci \in 1..Len(t.Cols) |-> [kind |-> st[t.Cols[ci]].kind, csz |-> st[t.Cols[ci]].csz]]

\* etable.New(sc, rows): the store with the new table's columns at ids
New(st, sc, rows, ids) ==
  [id \in DOMAIN st |->
     IF \E ci \in 1..Len(ids) : ids[ci] = id
     THEN LET ci == CHOOSE c \in 1..Len(ids) : ids[c] = id
          IN NewTensor(sc[ci].kind, sc[ci].csz, rows)
     ELSE st[id]]

\* the inner loop of NewTable copying the cell of row i, not of row Idxs[i]
RECURSIVE CopyRowsInOrder(_, _, _, _, _, _)
CopyRowsInOrder(st, tcl, scl, csz, idxs, i) ==
  IF i >= Len(idxs) THEN st
  ELSE CopyRowsInOrder([st EXCEPT ![tcl] = CopyCellsFrom(st[tcl], st[scl], i * csz,
                                                         (i % (Len(st[scl].Values) \div csz)) * csz,
                                                         csz)],
                       tcl, scl, csz, idxs, i + 1)

\* the inner loop of NewTable from position i on: the cell of row Idxs[i]
\* of column scl is copied to row i of column tcl
RECURSIVE CopyRows(_, _, _, _, _, _)
CopyRows(st, tcl, scl, csz, idxs, i) ==
  IF i >= Len(idxs) THEN st
  ELSE CopyRows([st EXCEPT ![tcl] = CopyCellsFrom(st[tcl], st[scl], i * csz,
                                                  idxs[i + 1] * csz, csz)],
                tcl, scl, csz, idxs, i + 1)

\* the outer loop of NewTable from column ci on
RECURSIVE CopyCols(_, _, _, _, _)
CopyCols(st, t, ntab, idxs, ci) ==
  IF ci >= Len(ntab.Cols) THEN st
  ELSE CopyCols(CopyRows(st, ntab.Cols[ci + 1], t.Cols[ci + 1],
                         RowCellSize(st[ntab.Cols[ci + 1]]), idxs, 0),
                t, ntab, idxs, ci + 1)

\* NewTable returning the source table itself when the view lists every row
\* once and in order
NewTableAlias(st, t, idxs) ==
  LET rows == Len(idxs)
      sc == SchemaOf(st, t)
      ntab == [Rows |-> rows, Cols |-> [ci \in 1..Len(sc) |-> Len(t.Cols) + ci]]
      st1 == New(st, sc, rows, ntab.Cols)
  IN IF idxs = [i \in 1..t.Rows |-> i - 1] THEN [tens |-> st, nt |-> t]
     ELSE IF rows = 0 THEN [tens |-> st1, nt |-> ntab]
     ELSE [tens |-> CopyCols(st1, t, ntab, idxs, 0), nt |-> ntab]

\* NewTable: the store afterwards and the table returned
NewTable(st, t, idxs) ==
  LET rows == Len(idxs)
      sc == SchemaOf(st, t)
      ntab == [Rows |-> rows, Cols |-> [ci \in 1..Len(sc) |-> Len(t.Cols) + ci]]
      st1 == New(st, sc, rows, ntab.Cols)
  IN IF rows = 0 THEN [tens |-> st1, nt |-> ntab]
     ELSE [tens |-> CopyCols(st1, t, ntab, idxs, 0), nt |-> ntab]

\* etensor.AggFunc values: "sum" adds the value to the aggregate, "mix"
\* depends on the index it is given and on the order of the calls
CallAgg(fun, idx, val, agg) ==
  IF fun = "sum" THEN FloatAdd(agg, val)
  ELSE IF agg.nan \/ val.nan THEN NaN ELSE F(2 * agg.v + 10 * idx + val.v)

\* the loop of AggCol for csz == 1 without the null test
RECURSIVE AggRows1NoNull(_, _, _, _, _)
AggRows1NoNull(cl, fun, ag, idxs, k) ==
  IF k > Len(idxs) THEN ag
  ELSE LET srw == idxs[k]
           val == FloatVal1D(cl, srw)
       IN AggRows1NoNull(cl, fun,
                         IF ~IsNaN(val)
                         THEN [ag EXCEPT ![1] = CallAgg(fun, srw, val, ag[1])] ELSE ag,
                         idxs, k + 1)

\* the loop of AggCol for csz == 1, from entry k of idxs on
RECURSIVE AggRows1(_, _, _, _, _)
AggRows1(cl, fun, ag, idxs, k) ==
  IF k > Len(idxs) THEN ag
  ELSE LET srw == idxs[k]
           val == FloatVal1D(cl, srw)
       IN AggRows1(cl, fun,
                   IF ~IsNull1D(cl, srw) /\ ~IsNaN(val)
                   THEN [ag EXCEPT ![1] = CallAgg(fun, srw, val, ag[1])] ELSE ag,
                   idxs, k + 1)

\* the loop over the cell of the row at flat offset si, from slot j on
RECURSIVE AggCells(_, _, _, _, _)
AggCells(cl, fun, ag, si, j) ==
  IF j >= Len(ag) THEN ag
  ELSE LET val == FloatVal1D(cl, si + j)
       IN AggCells(cl, fun,
                   IF ~IsNull1D(cl, si + j) /\ ~IsNaN(val)
                   THEN [ag EXCEPT ![j + 1] = CallAgg(fun, si + j, val, ag[j + 1])] ELSE ag,
                   si, j + 1)

\* the loop of AggCol for csz > 1, from entry k of idxs on
RECURSIVE AggRowsN(_, _, _, _, _)
AggRowsN(cl, fun, ag, idxs, k) ==
  IF k > Len(idxs) THEN ag
  ELSE AggRowsN(cl, fun, AggCells(cl, fun, ag, idxs[k] * RowCellSize(cl), 0), idxs, k + 1)

\* AggCol
AggCol(cols, idxs, colIdx, ini, fun) ==
  LET cl == cols[colIdx + 1]
      csz == RowCellSize(cl)
      ag0 == [i \in 1..csz |-> ini]
  IN IF csz = 1 THEN AggRows1(cl, fun, ag0, idxs, 1)
     ELSE AggRowsN(cl, fun, ag0, idxs, 1)

----------------------------------------------------------------------------
\* The state.
VARIABLES
  Table,  \* the etable.Table the views are onto: [Rows, Cols]
  tens,   \* the tensor store: the columns of Table, and of the table NewTable returned
  ix,     \* the views: [live, Table, Idxs, lessFunc] each
  mem,    \* the heap of the backing arrays of the Idxs slices
  last,   \* the last call: its name, its view, its arguments, and Idxs before it
  nt,     \* the table the last call returned, if it was NewTable
  ag      \* the slice the last call returned, if it was AggCol

vars == <<Table, tens, ix, mem, last, nt, ag>>

\* no table returned
NoTable == [Rows |-> 0, Cols |-> <<>>]

\* the record of a call: its name, its view v, the other view o it names
\* (or v), and its arguments
Call(op, v, o, lf, keep, args) ==
  [op |-> op, v |-> v, o |-> o, pre |-> <<>>, lf |-> lf, keep |-> keep, args |-> args,
   again |-> FALSE]

\* the call is logged
Log(c) == last' = c

\* the call is logged together with the index sequence of its view before
\* it, and with whether it repeats the call before it: the same method on the
\* same view with the same arguments
LogPre(c) ==
  last' = [c EXCEPT !.pre = IF ix[c.v].live THEN Elems(mem, ix[c.v].Idxs) ELSE <<>>,
                    !.again = /\ last.op = c.op /\ last.v = c.v /\ last.lf = c.lf
                              /\ last.keep = c.keep /\ last.args = c.args]

\* the current index sequence of view v
Idxs(v) == Elems(mem, ix[v].Idxs)

\* the store once the caller has dropped the table an earlier NewTable returned
Dropped(st) == [id \in DOMAIN st |-> IF id \in NewIds THEN NoTensor ELSE st[id]]

\* a call on view v that leaves heap and view r and returns nothing
Returns(v, r) ==
  /\ ix' = [ix EXCEPT ![v] = r.ix]
  /\ mem' = Collect(r.mem, [ix EXCEPT ![v] = r.ix])
  /\ tens' = Dropped(tens)
  /\ nt' = NoTable
  /\ ag' = <<>>
  /\ UNCHANGED Table

----------------------------------------------------------------------------
\* The calls.

\* NewIdxTable(et) into the slot v
NewIdxTableCall(v) ==
  /\ ~ix[v].live
  /\ Returns(v, NewIdxTable(mem, "t", Table.Rows, FreshArr(ix)))

\* ix.SetTable(et), et the table or nil
SetTableCall(v, et) ==
  /\ ix[v].live
  /\ Returns(v, SetTable(mem, ix[v], et, Table.Rows, FreshArr(ix)))

\* ix.Sequential()
SequentialCall(v) ==
  /\ ix[v].live
  /\ Returns(v, Sequential(mem, ix[v], Table.Rows, FreshArr(ix)))

\* ix.AddIndex(idx), taken while the view has fewer than maxLen entries
AddIndexCall(v, idx, maxLen) ==
  /\ ix[v].live
  /\ IdxLen(ix[v]) < maxLen
  /\ Returns(v, AddIndex(mem, ix[v], idx, FreshArr(ix)))

\* ix.Sort(lessFunc)
SortCall(v, lessFunc) ==
  /\ ix[v].live
  /\ SortEnds(mem, ix[v], Table.Rows, lessFunc)
  /\ \E r \in Sort(mem, ix[v], ColsOf(tens, Table), lessFunc) :
       Returns(v, r)

\* ix.SortCol(colIdx, ascending)
SortColCall(v, colIdx, ascending) ==
  /\ ix[v].live
  /\ ix[v].Table # "nil"
  /\ SortEnds(mem, ix[v], Table.Rows, ColLess(colIdx, ascending))
  /\ \E r \in SortCol(mem, ix[v], ColsOf(tens, Table), colIdx, ascending) :
       Returns(v, r)

\* ix.SortCols(colIdxs, ascending)
SortColsCall(v, colIdxs, ascending) ==
  /\ ix[v].live
  /\ SortEnds(mem, ix[v], Table.Rows, ColsLess(colIdxs, ascending))
  /\ \E r \in SortCols(mem, ix[v], ColsOf(tens, Table), colIdxs, ascending) :
       Returns(v, r)

\* ix.Filter(filterFunc)
FilterCall(v, filterFunc) ==
  /\ ix[v].live
  /\ Returns(v, Filter(mem, ix[v], filterFunc))

\* ix.Swap(i, j)
SwapCall(v, i, j) ==
  /\ ix[v].live
  /\ i >= 0 /\ i < IdxLen(ix[v])
  /\ j >= 0 /\ j < IdxLen(ix[v])
  /\ Returns(v, Swap(mem, ix[v], i, j))

\* w := v.Clone()
CloneCall(v, w) ==
  /\ ix[v].live
  /\ ~ix[w].live
  /\ Returns(w, Clone(mem, ix[v], FreshArr(ix)))

\* w.CopyFrom(v)
CopyFromCall(w, v) ==
  /\ ix[v].live
  /\ ix[w].live
  /\ w # v
  /\ Returns(w, CopyFrom(mem, ix[w], ix[v], FreshArr(ix)))

\* ix.NewTable(); it panics on a nil table and on an entry that is no row
NewTableCall(v) ==
  /\ ix[v].live
  /\ ix[v].Table # "nil"
  /\ AllValid(Idxs(v), Table.Rows)
  /\ LET r == NewTable(Dropped(tens), Table, Idxs(v)) IN
       /\ tens' = r.tens
       /\ nt' = r.nt
  /\ ag' = <<>>
  /\ UNCHANGED <<Table, ix, mem>>

\* ix.AggCol(colIdx, ini, fun) on a FLOAT64 column; it panics on a nil table
\* and on an entry that is no row
AggColCall(v, colIdx, ini, fun) ==
  /\ ix[v].live
  /\ ix[v].Table # "nil"
  /\ AllValid(Idxs(v), Table.Rows)
  /\ DataType(ColsOf(tens, Table)[colIdx + 1]) = "FLOAT64"
  /\ ag' = AggCol(ColsOf(tens, Table), Idxs(v), colIdx, F(ini), fun)
  /\ tens' = Dropped(tens)
  /\ nt' = NoTable
  /\ UNCHANGED <<Table, ix, mem>>

----------------------------------------------------------------------------
\* The arguments the calls are made with.

\* the LessFunc a caller passes to Sort
LessFuncs == {NeverLess, RowLess}

\* the columns SortCol is called on (column 3 has cells of two elements:
\* "only valid for 1-dimensional columns", yet it is not refused)
SortColIdxs == 0..(NumCols - 1)

\* the key columns SortCols is called with: up to two of the single-cell columns
KeyCols == {<<>>} \cup {<<a>> : a \in 0..2} \cup {<<a, b>> : a, b \in 0..2}

\* the FilterFunc values: any set of rows to keep
FilterFuncs(rows) == SUBSET (0..(rows - 1))

\* the FLOAT64 columns AggCol is called on
AggColIdxs == {0, 1, 3}

\* the initial values AggCol is called with
AggInis == {0, 5}

\* the reducers AggCol is called with
AggFuncs == {"sum", "mix"}

\* the number fun is logged as
FunNo(fun) == IF fun = "sum" THEN 0 ELSE 1

----------------------------------------------------------------------------
\* Spec: two views from NewIdxTable on, under every call.  AddIndex is also
\* called with a number that is no row of the table (Table.Rows).

\* the heap with no array
NoMem == [a \in ArrIds |-> <<>>]

\* the state with table (k, rows) and the views xs over heap m
Start(k, rows, xs, m) ==
  /\ Table = MakeTable(rows)
  /\ tens = MakeStore(k, rows)
  /\ ix = xs
  /\ mem = m
  /\ last = Call("NewIdxTable", "a", "a", NilLess, {}, <<>>)
  /\ nt = NoTable
  /\ ag = <<>>

Init ==
  \E rows \in 0..HeapRows :
    LET r == NewIdxTable(NoMem, "t", rows, 1) IN
    Start(1, rows, [v \in Views |-> IF v = "a" THEN r.ix ELSE NoView], r.mem)

Next ==
  \E v \in Views :
    \/ NewIdxTableCall(v) /\ Log(Call("NewIdxTable", v, v, NilLess, {}, <<>>))
    \/ SetTableCall(v, "t") /\ Log(Call("SetTable", v, v, NilLess, {}, <<>>))
    \/ SequentialCall(v) /\ Log(Call("Sequential", v, v, NilLess, {}, <<>>))
    \/ \E idx \in {0, Table.Rows} :
         AddIndexCall(v, idx, HeapLen) /\ Log(Call("AddIndex", v, v, NilLess, {}, <<idx>>))
    \/ SortCall(v, NeverLess) /\ Log(Call("Sort", v, v, NilLess, {}, <<>>))
    \/ SortColCall(v, 1, TRUE) /\ Log(Call("SortCol", v, v, NilLess, {}, <<>>))
    \/ SortColsCall(v, <<1>>, FALSE) /\ Log(Call("SortCols", v, v, NilLess, {}, <<>>))
    \/ FilterCall(v, {0}) /\ Log(Call("Filter", v, v, NilLess, {}, <<>>))
    \/ \E i, j \in 0..(HeapLen - 1) :
         SwapCall(v, i, j) /\ Log(Call("Swap", v, v, NilLess, {}, <<>>))
    \/ \E w \in Views : CloneCall(v, w) /\ Log(Call("Clone", w, v, NilLess, {}, <<>>))
    \/ \E w \in Views : CopyFromCall(w, v) /\ Log(Call("CopyFrom", w, v, NilLess, {}, <<>>))
    \/ NewTableCall(v) /\ Log(Call("NewTable", v, v, NilLess, {}, <<>>))
    \/ AggColCall(v, 3, 0, "sum") /\ Log(Call("AggCol", v, v, NilLess, {}, <<>>))

Spec == Init /\ [][Next]_vars

----------------------------------------------------------------------------
\* SpecOp: one call, with any of its arguments, on a view holding any index
\* sequence of up to MaxLen rows of a table of up to MaxRows rows (such a
\* view is what Clone returns for a view built with AddIndex, Swap and
\* Filter).  The call is logged with the index sequence before it.

\* the sequences of up to n rows of a table with rows rows
IdxSeqs(rows, n) == UNION {[1..l -> 0..(rows - 1)] : l \in 0..n}

\* the view onto the table holding idxs, its array at 1
ViewOf(idxs) ==
  [live |-> TRUE, Table |-> "t", Idxs |-> [ptr |-> 1, len |-> Len(idxs)],
   lessFunc |-> NilLess]

\* the state with table (k, rows) and the single view "a" holding idxs
StartOne(k, rows, idxs) ==
  /\ Table = MakeTable(rows)
  /\ tens = MakeStore(k, rows)
  /\ ix = [v \in Views |-> IF v = "a" THEN ViewOf(idxs) ELSE NoView]
  /\ mem = [NoMem EXCEPT ![1] = idxs]
  /\ last = Call("Clone", "a", "a", NilLess, {}, <<>>)
  /\ nt = NoTable
  /\ ag = <<>>

\* the index sequence of a new view: every row once, in order
Identity(rows) == [i \in 1..rows |-> i - 1]

InitOp ==
  \E k \in 1..Len(Master), rows \in 0..MaxRows :
    \E idxs \in IdxSeqs(rows, MaxLen) \cup {Identity(rows)} : StartOne(k, rows, idxs)

\* no call has been made on the view yet
Fresh == last.op = "Clone"

NextOp ==
  \/ Fresh /\ SetTableCall("a", "nil")
     /\ LogPre(Call("SetTable", "a", "a", NilLess, {}, <<>>))
  \/ Fresh /\ SequentialCall("a")
     /\ LogPre(Call("Sequential", "a", "a", NilLess, {}, <<>>))
  \/ \E idx \in 0..(Table.Rows - 1) :
       Fresh /\ AddIndexCall("a", idx, MaxLen)
       /\ LogPre(Call("AddIndex", "a", "a", NilLess, {}, <<idx>>))
  \/ \E lessFunc \in LessFuncs :
       Fresh /\ SortCall("a", lessFunc)
       /\ LogPre(Call("Sort", "a", "a", lessFunc, {}, <<>>))
  \/ \E colIdx \in SortColIdxs, ascending \in BOOLEAN :
       Fresh /\ SortColCall("a", colIdx, ascending)
       /\ LogPre(Call("SortCol", "a", "a", ColLess(colIdx, ascending), {}, <<>>))
  \/ \E colIdxs \in KeyCols, ascending \in BOOLEAN :
       Fresh /\ SortColsCall("a", colIdxs, ascending)
       /\ LogPre(Call("SortCols", "a", "a", ColsLess(colIdxs, ascending), {}, <<>>))
  \/ \E filterFunc \in FilterFuncs(Table.Rows) :
       Fresh /\ FilterCall("a", filterFunc)
       /\ LogPre(Call("Filter", "a", "a", NilLess, filterFunc, <<>>))
  \/ \E i, j \in 0..(MaxLen - 1) :
       Fresh /\ SwapCall("a", i, j)
       /\ LogPre(Call("Swap", "a", "a", NilLess, {}, <<i, j>>))
  \/ Fresh /\ NewTableCall("a")
     /\ LogPre(Call("NewTable", "a", "a", NilLess, {}, <<>>))
  \/ \E colIdx \in AggColIdxs, ini \in AggInis, fun \in AggFuncs :
       Fresh /\ AggColCall("a", colIdx, ini, fun)
       /\ LogPre(Call("AggCol", "a", "a", NilLess, {}, <<colIdx, ini, FunNo(fun)>>))

SpecOp == InitOp /\ [][NextOp]_vars

----------------------------------------------------------------------------
\* SpecFilter: any number of Filter calls, one after the other, on such a view.
\* A FilterFunc is given by the rows it keeps, so the cells of the table do
\* not matter here and the table is the one that starts at the first master row.

InitFilter ==
  \E rows \in 0..MaxRows :
    \E idxs \in IdxSeqs(rows, MaxLen) \cup {Identity(rows)} : StartOne(1, rows, idxs)

NextFilter ==
  \E filterFunc \in FilterFuncs(Table.Rows) :
    FilterCall("a", filterFunc) /\ LogPre(Call("Filter", "a", "a", NilLess, filterFunc, <<>>))

SpecFilter == InitFilter /\ [][NextFilter]_vars

----------------------------------------------------------------------------
\* Definitions the properties are stated with.

\* the rows of the table
Rows == 0..(Table.Rows - 1)

\* the columns of the table
TableCols == ColsOf(tens, Table)

\* the entries of s that are in keep, in the order of s
RECURSIVE Kept(_, _)
Kept(s, keep) ==
  IF s = <<>> THEN <<>>
  ELSE IF Head(s) \in keep THEN <<Head(s)>> \o Kept(Tail(s), keep)
  ELSE Kept(Tail(s), keep)

\* rows a and b compare as equal under lf: neither is less than the other
Tied(lf, a, b) == ~CallLess(lf, TableCols, a, b) /\ ~CallLess(lf, TableCols, b, a)

\* s2 is s1 reordered with the entries that compare as equal left in their
\* order: some one-to-one matching of the positions of s1 with those of s2
\* keeps every value and the order of every tied pair
StableReorder(s1, s2, lf) ==
  /\ Len(s1) = Len(s2)
  /\ \E p \in Perms(Len(s1)) :
       /\ \A k \in 1..Len(s1) : s2[p[k]] = s1[k]
       /\ \A k, l \in 1..Len(s1) :
            (k < l /\ Tied(lf, s1[k], s1[l])) => p[k] < p[l]

\* s2 holds the entries of s1, each as often as s1 does
IsPermutation(s1, s2) ==
  /\ Len(s1) = Len(s2)
  /\ \E p \in Perms(Len(s1)) : \A k \in 1..Len(s1) : s2[p[k]] = s1[k]

\* the value of row r of the single-cell column cl
ValueAt(cl, r) == cl.Values[r + 1]

\* value a comes before value b in column cl's order, ascending or descending
Precedes(cl, ascending, a, b) ==
  IF cl.kind = "STRING"
  THEN IF ascending THEN StringLess(a, b) ELSE StringLess(b, a)
  ELSE IF ascending THEN FloatLess(a, b) ELSE FloatLess(b, a)

\* row r holds a NaN in one of the key columns colIdxs
NaNKey(colIdxs, r) ==
  \E k \in 1..Len(colIdxs) :
    LET cl == TableCols[colIdxs[k] + 1] IN cl.kind # "STRING" /\ ValueAt(cl, r).nan

\* the lexicographic order on the key tuple: at the first key column where
\* rows a and b differ, a's value precedes b's
LexLess(colIdxs, ascending, a, b) ==
  \E k \in 1..Len(colIdxs) :
    /\ \A h \in 1..(k - 1) : ValueAt(TableCols[colIdxs[h] + 1], a)
                               = ValueAt(TableCols[colIdxs[h] + 1], b)
    /\ ValueAt(TableCols[colIdxs[k] + 1], a) # ValueAt(TableCols[colIdxs[k] + 1], b)
    /\ Precedes(TableCols[colIdxs[k] + 1], ascending,
                ValueAt(TableCols[colIdxs[k] + 1], a), ValueAt(TableCols[colIdxs[k] + 1], b))

----------------------------------------------------------------------------
\* C1: Sort is stable.  After a sort by any comparator, the entries of Idxs
\* whose rows compare as equal are in the order they had before; a sort by
\* the comparator that is never true leaves Idxs as it was.
C1_SortStable ==
  last.op \in {"Sort", "SortCol", "SortCols"} =>
    /\ StableReorder(last.pre, Idxs("a"), last.lf)
    /\ (last.lf = NeverLess => Idxs("a") = last.pre)

\* C2: the comparator SortCols builds is the lexicographic order on the key
\* tuple: for all rows a and b (without a NaN key), less(a, b) is true
\* exactly when a's value precedes b's at the first key column where they
\* differ.
C2_Lexicographic ==
  last.op = "SortCols" =>
    \A a, b \in Rows :
      (~NaNKey(last.lf.cols, a) /\ ~NaNKey(last.lf.cols, b)) =>
        (CallLess(ix["a"].lessFunc, TableCols, a, b)
           <=> LexLess(last.lf.cols, last.lf.asc, a, b))

\* C3: Filter is a stable compaction.  After Filter, Idxs is the subsequence
\* of the entries it held before whose row the FilterFunc keeps, in their
\* order (so a chain of Filter calls only narrows the view).
C3_FilterCompacts ==
  last.op = "Filter" => Idxs("a") = Kept(last.pre, last.keep)

\* a Filter has removed the entry between two entries for the same row, and
\* kept those two
C3_Witness ==
  /\ last.op = "Filter"
  /\ Len(last.pre) = 3
  /\ last.pre[1] = last.pre[3] /\ last.pre[2] # last.pre[1]
  /\ Len(Idxs("a")) = 2
  /\ Idxs("a")[1] = Idxs("a")[2]

\* C8: Filter is idempotent.  A Filter call that follows a Filter call with
\* the same FilterFunc leaves Idxs as the first call left it.
C8_FilterIdempotent ==
  (last.op = "Filter" /\ last.again) => Idxs("a") = last.pre

\* the same FilterFunc has been applied twice in a row to a view from which
\* it removes an entry and in which it keeps one
C8_Witness ==
  /\ last.op = "Filter" /\ last.again
  /\ Idxs("a") # <<>>
  /\ Rows \ last.keep # {}
  /\ Len(mem[ix["a"].Idxs.ptr]) > Len(Idxs("a"))

\* C5: materialisation.  After NewTable on a view of valid rows, the table
\* returned has the schema of the source and Len() rows, and in every column
\* the cell at row i is the source column's cell at row Idxs[i], values and
\* null bits; for the view of a NewIdxTable it equals the source table.
C5_NewTableCopies ==
  last.op = "NewTable" =>
    LET idxs == Idxs("a")
        ncols == ColsOf(tens, nt)
    IN /\ nt.Rows = Len(idxs)
       /\ SchemaOf(tens, nt) = SchemaOf(tens, Table)
       /\ \A ci \in 1..NumCols :
            LET csz == TableCols[ci].csz IN
            /\ Len(ncols[ci].Values) = Len(idxs) * csz
            /\ Len(ncols[ci].Nulls) = Len(idxs) * csz
            /\ \A i \in 0..(Len(idxs) - 1), e \in 1..csz :
                 /\ ncols[ci].Values[i * csz + e] = TableCols[ci].Values[idxs[i + 1] * csz + e]
                 /\ ncols[ci].Nulls[i * csz + e] = TableCols[ci].Nulls[idxs[i + 1] * csz + e]
       /\ (idxs = Identity(Table.Rows) => ncols = TableCols)

\* NewTable has materialised a view that lists a row twice and out of order
C5_Witness ==
  /\ last.op = "NewTable"
  /\ Idxs("a") = <<2, 0, 2>>
  /\ nt.Rows = 3
  /\ tens[nt.Cols[4]].Values[1] = tens[Table.Cols[4]].Values[5]

\* slot j of the aggregate of column cl: the left fold of fun from acc over
\* the entries of idxs from k on, taking the elements at flat offset
\* row * csz + j that are neither null nor NaN; fun is given that offset
RECURSIVE SlotFold(_, _, _, _, _, _)
SlotFold(cl, fun, j, idxs, k, acc) ==
  IF k > Len(idxs) THEN acc
  ELSE LET off == idxs[k] * cl.csz + j
           val == cl.Values[off + 1]
       IN SlotFold(cl, fun, j, idxs, k + 1,
                   IF cl.Nulls[off + 1] \/ val.nan THEN acc
                   ELSE CallAgg(fun, off, val, acc))

\* C6: aggregation.  AggCol returns csz values, slot j the left fold of fun
\* from ini over the view's rows in index order, over the elements at flat
\* offset row * csz + j that are neither null nor NaN (the offset, which is
\* the row when csz is 1, is what fun is given); a slot with no such
\* element is ini.
C6_AggColFolds ==
  last.op = "AggCol" =>
    LET cl == TableCols[last.args[1] + 1]
        fun == IF last.args[3] = 0 THEN "sum" ELSE "mix"
    IN /\ Len(ag) = cl.csz
       /\ \A j \in 0..(cl.csz - 1) :
            ag[j + 1] = SlotFold(cl, fun, j, Idxs("a"), 1, F(last.args[2]))

\* the column values 1.0, NaN, 3.0, null summed from 0 are 4.0
C6_Witness ==
  /\ last.op = "AggCol" /\ last.args = <<0, 0, 0>>
  /\ Idxs("a") = <<0, 1, 2, 3>>
  /\ TableCols[1].Values = <<F(1), NaN, F(3), F(7)>>
  /\ TableCols[1].Nulls = <<FALSE, FALSE, FALSE, TRUE>>
  /\ ag = <<F(4)>>

\* column cl holds no NaN
NoNaN(cl) == cl.kind = "STRING" \/ \A k \in 1..Len(cl.Values) : ~cl.Values[k].nan

\* C10: SortCol on a single-cell column without NaN leaves Idxs a
\* permutation of what it was, with the column's values at the rows Idxs[0],
\* Idxs[1], ... never decreasing when ascending and never increasing when
\* descending.
C10_SortColOrders ==
  (last.op = "SortCol" /\ TableCols[last.lf.col + 1].csz = 1
     /\ NoNaN(TableCols[last.lf.col + 1])) =>
    LET cl == TableCols[last.lf.col + 1]
        idxs == Idxs("a")
    IN /\ IsPermutation(last.pre, idxs)
       /\ \A i, j \in 1..Len(idxs) :
            i < j => ~Precedes(cl, last.lf.asc, ValueAt(cl, idxs[j]), ValueAt(cl, idxs[i]))

\* a descending SortCol on the string column has reordered a view of three
\* entries that were not in table order
C10_Witness ==
  /\ last.op = "SortCol" /\ last.lf = ColLess(2, FALSE)
  /\ last.pre = <<1, 0, 2>>
  /\ Idxs("a") = <<0, 2, 1>>

----------------------------------------------------------------------------
\* the views that exist
Live == {v \in Views : ix[v].live}

\* every entry of every view is a row of the table
EveryValid == \A v \in Live : AllValid(Idxs(v), Table.Rows)

\* the index sequence of view v after the step
IdxsAfter(v) == Elems(mem', ix'[v].Idxs)

\* C4: Clone independence.  Clone returns a view with the same Table and an
\* index sequence equal to the original's, and no call on one view changes
\* the index sequence of another view.
C4_CloneIndependent ==
  [][/\ \A w \in Live : w # last'.v => (ix'[w].live /\ IdxsAfter(w) = Idxs(w))
     /\ last'.op = "Clone" =>
          (ix'[last'.v].Table = ix[last'.o].Table /\ IdxsAfter(last'.v) = Idxs(last'.o))]_vars

\* the clone "b" of a view of two rows has been filtered down to one row
\* while the original keeps both
C4_Witness ==
  /\ ix["b"].live
  /\ last.op = "Filter" /\ last.v = "b"
  /\ Idxs("a") = <<1, 0>>
  /\ Idxs("b") = <<0>>

\* C7 as stated: in every state every entry of Idxs is a valid row.
C7_AlwaysValid == EveryValid

\* C7 as amended: every call keeps the entries of every view valid rows,
\* except an AddIndex whose argument is no row of the table.
C7_ValidUnlessAdded ==
  [][(EveryValid /\ ~(last'.op = "AddIndex" /\ ~AllValid(last'.args, Table.Rows)))
       => EveryValid']_vars

\* a valid row has been appended to the filtered clone of a reordered view;
\* all entries of both views are rows
C7_Witness ==
  /\ ix["b"].live
  /\ last.op = "AddIndex" /\ last.v = "b" /\ last.args = <<0>>
  /\ Idxs("a") = <<1, 0>>
  /\ Idxs("b") = <<0, 0>>
  /\ EveryValid

\* C9: the view never mutates its table.  No call changes the Table's row
\* count or columns or the contents of any of its columns, and the table
\* NewTable returns has no column of the source table.
C9_TableUntouched ==
  [][/\ Table' = Table
     /\ \A ci \in 1..Len(Table.Cols) : tens'[Table.Cols[ci]] = tens[Table.Cols[ci]]
     /\ last'.op = "NewTable" =>
          \A ci \in 1..Len(nt'.Cols), cj \in 1..Len(Table.Cols) :
            nt'.Cols[ci] # Table.Cols[cj]]_vars

\* NewTable has materialised a view that lists every row once, in order
C9_Witness ==
  /\ last.op = "NewTable"
  /\ Table.Rows = 2
  /\ Idxs(last.v) = <<0, 1>>
  /\ nt.Rows = 2
  /\ ColsOf(tens, nt) = TableCols

====
